---- MODULE Spec2Model ----
(***************************************************************************)
(* Model of telegram_bridge.py: one ClineSession shared by the Telegram    *)
(* update handlers, the terminal command thread and the terminal-input     *)
(* processing task, and the send_to_cline invocation they serialize        *)
(* through ClineSession.lock.                                              *)
(*                                                                         *)
(* Granularity.  The Telegram handlers and process_terminal_input are      *)
(* coroutines of one event loop: code between two awaits is one step.      *)
(* main() builds the Application without concurrent updates, so one        *)
(* Telegram update is handled at a time (caller "tg").  The terminal       *)
(* thread runs handle_terminal_command outside the event loop, at any      *)
(* time; one command is one step.                                          *)
(***************************************************************************)
EXTENDS Integers, Sequences, FiniteSets, TLC

\* ------------------------------------------------------------------ bounds
MaxOut == 2        \* tokens one agent process writes to its stdout
MaxQueue == 1      \* terminal messages waiting in terminal_input_queue
MaxText == 6       \* characters clean_output lets through: stands for the
                   \* 4000 of line 183, the cut of line 184 is 3 below it;
                   \* no output that stands for a short text is longer
MaxRaw == 5        \* characters of the raw texts clean_output is tried on
MaxCapture == 4    \* characters of the outputs the task id is captured from
MaxTicks == 4      \* half seconds one invocation is followed for
MaxErr == 2        \* the most an agent writes to its stderr
ErrCapacity == 1   \* what the unread stderr pipe and its buffer hold

\* ------------------------------------------------------- configuration
CLINE_TIMEOUT == 1                       \* seconds (environment value)
CLINE_WORKING_DIR == <<"/", "w">>
CLINE_MODEL == "z-ai/glm-5"
CLINE_YOLO == TRUE
AUTHORIZED_USER_ID == 1
READ_SIZE == 512

\* Python's None for task ids, which are sequences of digit tokens.  The
\* code only tests task ids for truthiness and no id is ever empty.
None == <<>>
NoModel == ""
NoCode == -1

Callers == {"tg", "term"}

\* The callers and whoever calls the methods of the session object.
Procs == Callers \cup {"api"}
Users == {1, 2}
Messages == {"hello"}
Models == {"opus", CLINE_MODEL}

\* Agent output is a sequence of tokens: "T" is the text "Task started:",
\* "7" a decimal digit.
Marker == "T"
Digits == {"7", "4", "2"}
Whitespace == {" ", "\n", "\r"}
Tokens == {"T", "7"}

\* Task ids a user can type after /resume.
ResumeIds == {<<"a">>}

\* The directories that exist; paths are component sequences and an
\* absolute path starts with "/".
Dirs == {<<"/">>, <<"/", "w">>}
CdArgs == {<<>>, <<"w">>, <<"..">>, <<"q">>, <<"/", "w">>, <<"/", "q">>,
           <<"/", "w", "..">>}

\* Polls of 0.5 s that make up the configured timeout, and the longest
\* wait the model follows.
TimeoutPolls == 2 * CLINE_TIMEOUT
MaxWait == TimeoutPolls + 1

\* Line 297: 1.5 s, in the half seconds the clock of the model counts.
edit_interval == 3

\* time.time() when an invocation starts: further from 0, the initial
\* last_edit_time, than the interval.
StartTime == edit_interval + 1

VARIABLES
    cline,                  \* the ClineSession fields
    lock,                   \* ClineSession.lock: its holder, or "free"
    pc,                     \* position of each caller of send_to_cline
    loc,                    \* send_to_cline's local variables, per caller
    agent,                  \* the subprocess of each caller
    terminal_input_queue,   \* the global Queue
    lastOp,                 \* the last handler that ran, with its reply
    parsedIds,              \* history: ids seen after a marker in agent output
    resumeArgs,             \* history: ids given to /resume
    waiters,                \* ClineSession.lock: the callers queued for it
    tracked_files,          \* TelegramBridge.tracked_files
    disk,                   \* the files under the working directory
    new_files               \* the list get_new_files returned last

vars == <<cline, lock, pc, loc, agent, terminal_input_queue, lastOp,
          parsedIds, resumeArgs, waiters, tracked_files, disk, new_files>>

\* ------------------------------------------------------------ ClineSession
NewSession ==
    [working_dir |-> CLINE_WORKING_DIR, model |-> CLINE_MODEL,
     task_id |-> None, process |-> "None", session_active |-> FALSE,
     total_tokens |-> 0, messages_sent |-> 0]

\* The process handle is "None", or the state of the process it refers to:
\* "running" while its returncode is None, "exited" after.
is_alive(s) == s.process # "None" /\ s.process = "running"

\* Lines 97-124: the process is started and kept in the session; when
\* create_subprocess_exec raises, nothing is changed and False is returned.
start_interactive(s, ok) ==
    IF ok
    THEN [state |-> [s EXCEPT !.process = "running", !.session_active = TRUE],
          ret |-> "True"]
    ELSE [state |-> s, ret |-> "False"]

\* Lines 126-138: terminate, kill when the process has not ended within the
\* grace period, and the handle is cleared.
stop(s) == [s EXCEPT !.process = "None", !.session_active = FALSE]

get_stats(s) ==
    [active |-> is_alive(s), task_id |-> s.task_id, tokens |-> s.total_tokens,
     messages |-> s.messages_sent, model |-> s.model,
     working_dir |-> s.working_dir]

RESET_TEXT == "Cline session reset. Next message will start fresh."

\* restart that forgets to clear the task id.
restart_keeps_task(s) ==
    [state |-> [s EXCEPT !.total_tokens = 0, !.messages_sent = 0],
     ret |-> RESET_TEXT]

restart(s) ==
    [state |-> [s EXCEPT !.task_id = None, !.total_tokens = 0,
                         !.messages_sent = 0],
     ret |-> RESET_TEXT]

\* ------------------------------------------------------------ clean_output
\* A text is a sequence of characters.  The character classes of the
\* regular expressions of lines 154-166, over the characters of the model.
ESC == "ESC"
FeFinal == {"M"}                   \* [@-Z\\-_]
CsiParam == {"7"}                  \* [0-?]
CsiInter == {" ", "."}             \* [ -/]
CsiFinal == {"M", "m", "["}        \* [@-~]
CursorParam == {"7"}               \* [0-9;]
CursorFinal == {"M", "m"}          \* [A-Za-z]
Control == {ESC}                   \* [\x00-\x09\x0b\x0c\x0e-\x1f]
Decorative == {"BOX"}               \* the border characters of line 177
Ellipsis == <<".", ".", ".">>

RECURSIVE skip_class(_, _, _)
skip_class(s, i, class) ==
    IF i <= Len(s) /\ s[i] \in class THEN skip_class(s, i + 1, class) ELSE i

literal(s, i, pat) ==
    IF i + Len(pat) - 1 <= Len(s) /\ SubSeq(s, i, i + Len(pat) - 1) = pat
    THEN Len(pat) ELSE 0

\* The length of the match of a pattern that starts at i, 0 when there is
\* none.  The classes of one pattern are disjoint, so the greedy match is
\* the only one.
match_len(re, s, i) ==
    CASE re = "ansi_escape" ->
            IF s[i] # ESC \/ i = Len(s) THEN 0
            ELSE IF s[i + 1] \in FeFinal THEN 2
            ELSE IF s[i + 1] # "[" THEN 0
            ELSE LET j == skip_class(s, skip_class(s, i + 2, CsiParam),
                                     CsiInter)
                 IN  IF j <= Len(s) /\ s[j] \in CsiFinal THEN j - i + 1 ELSE 0
      [] re = "cursor_codes" ->
            IF s[i] # ESC \/ i = Len(s) THEN 0
            ELSE IF s[i + 1] # "[" THEN 0
            ELSE LET j == skip_class(s, i + 2, CursorParam)
                 IN  IF j <= Len(s) /\ s[j] \in CursorFinal THEN j - i + 1
                     ELSE 0
      [] re = "clear" -> literal(s, i, <<ESC, "[", "2", "J">>)
      [] re = "home" -> literal(s, i, <<ESC, "[", "H">>)
      [] re = "control" -> IF s[i] \in Control THEN 1 ELSE 0
      [] re = "newlines" ->
            LET n == skip_class(s, i, {"\n"}) - i IN IF n >= 3 THEN n ELSE 0

\* re.sub(re, repl, s), from position i on.
RECURSIVE re_sub(_, _, _, _)
re_sub(re, repl, s, i) ==
    IF i > Len(s) THEN <<>>
    ELSE LET n == match_len(re, s, i)
         IN  IF n > 0 THEN repl \o re_sub(re, repl, s, i + n)
             ELSE <<s[i]>> \o re_sub(re, repl, s, i + 1)

\* str.strip()
strip(s) ==
    LET keep == {i \in 1..Len(s) : s[i] \notin Whitespace} IN
    IF keep = {} THEN <<>>
    ELSE SubSeq(s, CHOOSE i \in keep : \A k \in keep : i <= k,
                   CHOOSE i \in keep : \A k \in keep : i >= k)

\* text.split('\n')
RECURSIVE split(_)
split(s) ==
    LET hits == {i \in 1..Len(s) : s[i] = "\n"} IN
    IF hits = {} THEN <<s>>
    ELSE LET i == CHOOSE h \in hits : \A k \in hits : h <= k
         IN  <<SubSeq(s, 1, i - 1)>> \o split(SubSeq(s, i + 1, Len(s)))

\* '\n'.join(lines)
RECURSIVE join_lines(_)
join_lines(lines) ==
    IF lines = <<>> THEN <<>>
    ELSE IF Len(lines) = 1 THEN lines[1]
    ELSE lines[1] \o <<"\n">> \o join_lines(Tail(lines))

\* Lines 154-163: the escape sequences go.
escapes_removed(text) ==
    LET t1 == re_sub("ansi_escape", <<>>, text, 1)
        t2 == re_sub("cursor_codes", <<>>, t1, 1)
        t3 == re_sub("clear", <<>>, t2, 1)
    IN  re_sub("home", <<>>, t3, 1)

\* A cleaner that leaves the control characters in.
controls_kept(text) == text

\* Line 166.
controls_removed(text) == re_sub("control", <<>>, text, 1)

\* Line 176: the test a line passes to be kept.
kept_line(line) ==
    LET stripped == strip(line) IN
    /\ stripped # <<>>
    /\ ~(\A i \in 1..Len(stripped) : stripped[i] \in Decorative)

\* Lines 169-179.
lines_cleaned(text) ==
    LET t == re_sub("newlines", <<"\n", "\n">>, text, 1)
        cleaned_lines == SelectSeq(split(t), LAMBDA line : kept_line(line))
    IN  join_lines(cleaned_lines)

\* A cut that leaves no room for the marker.
truncated_late(text) ==
    IF Len(text) > MaxText THEN SubSeq(text, 1, MaxText) \o Ellipsis ELSE text

\* Lines 183-184.
truncated(text) ==
    IF Len(text) > MaxText THEN SubSeq(text, 1, MaxText - 3) \o Ellipsis
    ELSE text

clean_output(text) ==
    IF text = <<>> THEN <<>>
    ELSE strip(truncated(lines_cleaned(controls_removed(
             escapes_removed(text)))))

\* ------------------------------------------------------------------ paths
isabs(p) == Len(p) > 0 /\ p[1] = "/"

join(a, b) == IF isabs(b) THEN b ELSE a \o b

RECURSIVE normparts(_, _)
normparts(done, rest) ==
    IF rest = <<>> THEN done
    ELSE LET c == Head(rest) IN
         IF c = "." THEN normparts(done, Tail(rest))
         ELSE IF c = ".."
              THEN normparts(IF Len(done) > 1 THEN SubSeq(done, 1, Len(done) - 1)
                             ELSE done, Tail(rest))
              ELSE normparts(Append(done, c), Tail(rest))

\* os.path.abspath of an absolute path: lexical normalisation.
abspath(p) == normparts(<<"/">>, Tail(p))

\* os.path.isdir: the system walks the path, every prefix must be a directory.
RECURSIVE walk(_, _)
walk(at, rest) ==
    IF at \notin Dirs THEN FALSE
    ELSE IF rest = <<>> THEN TRUE
    ELSE LET c == Head(rest) IN
         IF c = "." THEN walk(at, Tail(rest))
         ELSE IF c = ".."
              THEN walk(IF Len(at) > 1 THEN SubSeq(at, 1, Len(at) - 1) ELSE at,
                        Tail(rest))
              ELSE walk(Append(at, c), Tail(rest))

isdir(p) == isabs(p) /\ walk(<<"/">>, Tail(p))

\* ------------------------------------------------------- command handlers
is_authorized(user) == user = AUTHORIZED_USER_ID

Reply(s, ret, out) == [state |-> s, ret |-> ret, out |-> out]

reset_command(s, user) ==
    IF ~is_authorized(user) THEN Reply(s, "unauthorized", <<>>)
    ELSE LET r == restart(s) IN Reply(r.state, r.ret, <<>>)

\* Line 557: what /kill puts before the text of restart.
KILL_PREFIX == "Session killed and restarted.\n"

kill_command(s, user) ==
    IF ~is_authorized(user) THEN Reply(s, "unauthorized", <<>>)
    ELSE LET result == restart(s)
         IN  Reply(result.state, KILL_PREFIX \o result.ret, <<>>)

\* cd_command that resets the session before it validates the directory.
cd_command_resets_first(s, user, args) ==
    IF ~is_authorized(user) THEN Reply(s, "unauthorized", <<>>)
    ELSE IF args = <<>> THEN Reply(s, "usage", s.working_dir)
    ELSE LET new_dir == IF isabs(args) THEN args
                        ELSE abspath(join(s.working_dir, args))
         IN  IF ~isdir(new_dir) THEN Reply(restart(s).state, "not_found", new_dir)
             ELSE LET r == restart([s EXCEPT !.working_dir = new_dir])
                  IN  Reply(r.state, "changed", new_dir)

cd_command(s, user, args) ==
    IF ~is_authorized(user) THEN Reply(s, "unauthorized", <<>>)
    ELSE IF args = <<>> THEN Reply(s, "usage", s.working_dir)
    ELSE LET new_dir == IF isabs(args) THEN args
                        ELSE abspath(join(s.working_dir, args))
         IN  IF ~isdir(new_dir) THEN Reply(s, "not_found", new_dir)
             ELSE LET r == restart([s EXCEPT !.working_dir = new_dir])
                  IN  Reply(r.state, "changed", new_dir)

\* " ".join(args) of a list that is not empty
RECURSIVE join_args(_)
join_args(args) ==
    IF Len(args) = 1 THEN args[1]
    ELSE args[1] \o " " \o join_args(Tail(args))

model_command(s, user, args) ==
    IF ~is_authorized(user) THEN Reply(s, "unauthorized", <<>>)
    ELSE IF args = <<>> THEN Reply(s, "usage", <<>>)
    ELSE LET new_model == join_args(args)
         IN  Reply([s EXCEPT !.model = new_model], "model_set", <<>>)

resume_command(s, user, args) ==
    IF ~is_authorized(user) THEN Reply(s, "unauthorized", <<>>)
    ELSE IF args = <<>> THEN Reply(s, "usage", <<>>)
    ELSE Reply([s EXCEPT !.task_id = args[1]], "task_set", args[1])

\* A stripped terminal line is its first word alone, <<word>>, or the
\* word, the white space after it and the rest, <<word, space, rest>>.
\* str.lower() on the first words that are typed.
lower(w) ==
    CASE w = "/RESET" -> "/reset"
      [] w = "/Model" -> "/model"
      [] w = "/Resume" -> "/resume"
      [] OTHER -> w

\* Lines 815-816: the line is split once at white space of any kind, and
\* the rest is taken as it was typed.
term_arg(words) == IF Len(words) > 1 THEN words[3] ELSE None

\* Line 814 and the tests on msg: msg is the word alone.
msg_is(words, names) == Len(words) = 1 /\ lower(words[1]) \in names

\* msg.startswith(name + " "): the word, then a space.
msg_startswith(words, name) ==
    Len(words) > 1 /\ lower(words[1]) = name /\ words[2] = " "

\* Lines 810-893; "handled" is a return of True that leaves the session
\* as it is, "unhandled" the return of False.  A line that starts with
\* "/resume " has a rest after it is stripped, so the usage branch of
\* line 852 is never taken.
handle_terminal_command(s, words) ==
    IF msg_is(words, {"/status", "/info"}) THEN Reply(s, "handled", <<>>)
    ELSE IF msg_is(words, {"/reset"})
        THEN Reply(restart(s).state, "reset", <<>>)
    ELSE IF msg_is(words, {"/tasks"}) THEN Reply(s, "handled", <<>>)
    ELSE IF msg_startswith(words, "/resume")
        THEN Reply([s EXCEPT !.task_id = term_arg(words)], "task_set",
                   term_arg(words))
    ELSE IF msg_is(words, {"/model"}) THEN Reply(s, "handled", <<>>)
    ELSE IF msg_startswith(words, "/model")
        THEN Reply([s EXCEPT !.model = term_arg(words)], "model_set", <<>>)
    ELSE IF msg_is(words, {"/files", "/help", "/start"})
        THEN Reply(s, "handled", <<>>)
    ELSE Reply(s, "unhandled", <<>>)

\* ---------------------------------------------------------- send_to_cline
\* The argument list built at lines 247-267, as a record: taskId is None
\* when --taskId is not passed, model is NoModel when --model is not passed.
\* build_cmd that passes the configured default model.
build_cmd_default_model(s, message) ==
    [path |-> "cline", yolo |-> CLINE_YOLO,
     taskId |-> IF s.task_id # None THEN s.task_id ELSE None,
     model |-> IF s.task_id # None THEN NoModel ELSE CLINE_MODEL,
     timeout |-> CLINE_TIMEOUT, cwd |-> s.working_dir, message |-> message]

build_cmd(s, message) ==
    [path |-> "cline", yolo |-> CLINE_YOLO,
     taskId |-> IF s.task_id # None THEN s.task_id ELSE None,
     model |-> IF s.task_id # None THEN NoModel ELSE s.model,
     timeout |-> CLINE_TIMEOUT, cwd |-> s.working_dir, message |-> message]

NoCmd ==
    [path |-> "", yolo |-> FALSE, taskId |-> None, model |-> NoModel,
     timeout |-> 0, cwd |-> <<>>, message |-> ""]

\* Lines 226-245: the text read from CLINE_MEMORY.md and CLINE_AGENTS.md of
\* the working directory, empty when neither file is there.
NoPreamble == <<>>
Preambles == {NoPreamble, <<"[MEMORY CONTEXT]">>}

\* str(CLINE_TIMEOUT), one token per number.
str(n) == <<ToString(n)>>

\* Lines 263-267: the last argument, a text in words.
last_arg(context_preamble, message) ==
    IF context_preamble # NoPreamble
    THEN <<"Context:">> \o context_preamble \o <<"User message: ", message>>
    ELSE <<message>>

\* The same list as a sequence of arguments, each argument a sequence of
\* words: cmd as create_subprocess_exec gets it at line 285.
\* cmd_list that selects the model on a resume too.
cmd_list_always_model(s, message, context_preamble) ==
    << <<"cline">> >>
    \o (IF CLINE_YOLO THEN << <<"--yolo">> >> ELSE <<>>)
    \o (IF s.task_id # None
        THEN << <<"--taskId">>, s.task_id, <<"--model">>, <<s.model>> >>
        ELSE << <<"--model">>, <<s.model>> >>)
    \o << <<"--timeout">>, str(CLINE_TIMEOUT) >>
    \o << <<"--cwd">>, s.working_dir >>
    \o << last_arg(context_preamble, message) >>

cmd_list(s, message, context_preamble) ==
    << <<"cline">> >>
    \o (IF CLINE_YOLO THEN << <<"--yolo">> >> ELSE <<>>)
    \o (IF s.task_id # None
        THEN << <<"--taskId">>, s.task_id >>
        ELSE << <<"--model">>, <<s.model>> >>)
    \o << <<"--timeout">>, str(CLINE_TIMEOUT) >>
    \o << <<"--cwd">>, s.working_dir >>
    \o << last_arg(context_preamble, message) >>

\* re.search(r'Task started:\s*(\d+)', output): the leftmost marker that is
\* followed by optional whitespace and at least one digit; group 1 is the
\* whole digit run present in the buffer.
RECURSIVE skip_ws(_, _)
skip_ws(s, j) ==
    IF j <= Len(s) /\ s[j] \in Whitespace THEN skip_ws(s, j + 1) ELSE j

RECURSIVE digit_end(_, _)
digit_end(s, k) ==
    IF k + 1 <= Len(s) /\ s[k + 1] \in Digits THEN digit_end(s, k + 1) ELSE k

match_at(s, i) ==
    /\ s[i] = Marker
    /\ digit_end(s, skip_ws(s, i + 1) - 1) >= skip_ws(s, i + 1)

group1(s, i) ==
    SubSeq(s, skip_ws(s, i + 1), digit_end(s, skip_ws(s, i + 1) - 1))

\* A pattern without the marker: the first digit run anywhere.
task_match_loose(output) ==
    LET hits == {i \in 1..Len(output) : output[i] \in Digits} IN
    IF hits = {} THEN None
    ELSE LET i == CHOOSE i \in hits : \A h \in hits : i <= h
         IN  SubSeq(output, i, digit_end(output, i))

task_match(output) ==
    LET hits == {i \in 1..Len(output) : match_at(output, i)} IN
    IF hits = {} THEN None
    ELSE group1(output, CHOOSE i \in hits : \A h \in hits : i <= h)

\* Lines 324-328: the id is captured once per invocation.
extract_task_id(task_id, output) ==
    IF task_id = None THEN task_match(output) ELSE task_id

\* Lines 745-747 of handle_message: the Telegram path stores the id.
store_task_id(s, task_id) ==
    IF task_id # None THEN [s EXCEPT !.task_id = task_id] ELSE s

\* What each entry path does with the triple send_to_cline returned:
\* handle_message stores the task id, process_terminal_input prints.
after_submit(p, s, task_id) ==
    IF p = "tg" THEN store_task_id(s, task_id) ELSE s

\* The locals of send_to_cline, the clock they are compared with (now), the
\* history of the progress edits: how many were attempted, when the last
\* one was, and with which preview, and the files the working directory
\* held when the invocation began (files_before).
NoLoc ==
    [message |-> "", cmd |-> NoCmd, output |-> <<>>, task_id |-> None,
     argv |-> <<>>, waited |-> 0, read_error |-> FALSE,
     stream_msg_id |-> FALSE, last_edit_time |-> 0, last_edit_text |-> <<>>,
     now |-> StartTime, calls |-> 0, last_call |-> 0, last_call_text |-> <<>>,
     files_before |-> {}, was |-> None]

\* Lines 330-337: the progress message is to be edited when the interval
\* has passed since the last edit that succeeded and the preview differs
\* from the text of that edit.
edit_due(l) ==
    /\ l.stream_msg_id
    /\ (l.now - l.last_edit_time) > edit_interval
    /\ LET preview == clean_output(l.output)
       IN  preview # <<>> /\ preview # l.last_edit_text

\* Lines 338-344: edit_message_text is called with the preview, at the
\* time current_time holds.
edit_called(l) ==
    [l EXCEPT !.calls = @ + 1,
              !.last_call = l.now,
              !.last_call_text = clean_output(l.output)]

\* Lines 345-349: the call has returned; when it succeeded (ok) the time
\* taken before the call and the preview are kept, when it raised nothing
\* is.
edit_returned(l, ok) ==
    IF ok THEN [l EXCEPT !.last_edit_time = l.last_call,
                         !.last_edit_text = l.last_call_text]
    ELSE l

\* The agent process: its state, the unread data of its stdout, how much it
\* has written there, its exit status, the amount of unread data in its
\* stderr pipe (err) and what it has still to write to stderr (err_todo).
NoAgent ==
    [st |-> "none", pipe |-> <<>>, written |-> 0, returncode |-> NoCode,
     err |-> 0, err_todo |-> 0]

\* The last handler: its name, who ran it, the path it was given, its reply,
\* the path or task id the reply shows, and the task id the session had
\* before it ran; for a submit also the text it returned and the output it
\* had read, what became of its progress message, and whether the caller
\* went on to call get_new_files (scan).
Op(op, by, arg, ret, out, was) ==
    [op |-> op, by |-> by, arg |-> arg, ret |-> ret, out |-> out, was |-> was,
     text |-> <<>>, raw |-> <<>>, stream |-> "none", scan |-> FALSE]

\* Lines 374-387: the progress message, when there is one, is deleted (or
\* the attempt fails and is ignored) on the way to the return of line 381;
\* the returns of lines 384 and 387 leave it, and every return gives None
\* as the message id.
stream_end(l, ret) ==
    IF ~l.stream_msg_id THEN "none"
    ELSE IF ret = "completed" THEN "deleted"
    ELSE "left"

\* The texts send_to_cline returns; a fixed text is one word.
COMPLETED_TEXT == <<"Cline completed.">>
NOT_FOUND_TEXT == <<"Cline CLI not found.">>

\* An error text that is the exception's message alone.
error_text_bare(e) == e

\* Line 387: f"Error: {str(e)}".
error_text(e) == <<"Error: ">> \o e

\* The messages str(e) gives for the exceptions of the model.
ErrorMessages == {<<>>, <<"e">>}

\* A result text that is the cleaned output whatever it is.
text_as_cleaned(cleaned) == cleaned

\* Line 381: clean_output(output) or the placeholder.
text_or_default(cleaned) ==
    IF cleaned # <<>> THEN cleaned ELSE COMPLETED_TEXT

\* Line 381 after the loop has ended at line 352, 356 or 363: the text is
\* made of the output read so far, whatever ended the loop.
result_text(l, a) == text_or_default(clean_output(l.output))

\* Every digit run that follows a marker somewhere in the output.
MarkerIds(out) ==
    {SubSeq(out, j, k) : <<j, k>> \in
        {jk \in (1..Len(out)) \X (1..Len(out)) :
            /\ jk[1] <= jk[2]
            /\ \A m \in jk[1]..jk[2] : out[m] \in Digits
            /\ \E i \in 1..(jk[1] - 1) :
                  /\ out[i] = Marker
                  /\ \A m \in (i + 1)..(jk[1] - 1) : out[m] \in Whitespace}}

InFlight == {p \in Callers : pc[p] # "idle"}

\* ----------------------------------------------------------- file tracker
EXTENSIONS ==
    <<".html", ".css", ".js", ".py", ".json", ".md", ".txt", ".png", ".jpg",
      ".gif">>

File(dir, stem, ext) == [dir |-> dir, stem |-> stem, ext |-> ext]

\* The files that can exist, listed in the ascending order of their path
\* strings, which is the order sorted() puts them in.
PathOrder ==
    <<File(<<"/", "w">>, "a", ".txt"), File(<<"/", "w">>, "b", ".txt"),
      File(<<"/", "w">>, "c", ".txt"), File(<<"/", "w">>, "d", ".log")>>

Range(s) == {s[i] : i \in 1..Len(s)}

Files == Range(PathOrder)

\* The place of a path in that order.  The paths of one scan all begin
\* with the working directory as it is written, so their strings are in the
\* order of the files they name.
Rank(f) ==
    CHOOSE i \in 1..Len(PathOrder) :
       PathOrder[i] = [f EXCEPT !.dir = abspath(f.dir)]

IsPrefix(a, b) == Len(a) <= Len(b) /\ SubSeq(b, 1, Len(a)) = a

\* The path string glob gives for file f found under wd: the working
\* directory as it is written, then the way from it down to the file.
\* Under "/w/.." the file /w/a.txt is '/w/../w/a.txt'.
path_under(wd, f) ==
    [f EXCEPT !.dir = wd \o SubSeq(f.dir, Len(abspath(wd)) + 1, Len(f.dir))]

\* glob.glob(os.path.join(working_dir, '**/*ext'), recursive=True): the
\* system resolves the directory, the strings returned are not normalised.
glob(wd, ext, d) ==
    IF ~isdir(wd) THEN {}
    ELSE {path_under(wd, f) :
             f \in {g \in d : IsPrefix(abspath(wd), g.dir) /\ g.ext = ext}}

\* sorted() of a collection without repetitions.
RECURSIVE sorted(_)
sorted(S) ==
    IF S = {} THEN <<>>
    ELSE LET m == CHOOSE f \in S : \A g \in S : Rank(f) <= Rank(g)
         IN  <<m>> \o sorted(S \ {m})

scan_files(wd, d) ==
    sorted(UNION {glob(wd, EXTENSIONS[i], d) : i \in 1..Len(EXTENSIONS)})

track_current_files(wd, d) == Range(scan_files(wd, d))

\* get_new_files that reports every file of the scan.
get_new_files_all(tracked, wd, d) ==
    LET current == Range(scan_files(wd, d))
    IN  [tracked_files |-> current, ret |-> sorted(current)]

\* Lines 208-213: the difference is one of sets of path strings; a file
\* tracked under another spelling of its path is not in the snapshot.
get_new_files(tracked, wd, d) ==
    LET current == Range(scan_files(wd, d))
        new == current \ tracked
    IN  [tracked_files |-> current, ret |-> sorted(new)]

\* ------------------------------------------------------------------- Init
Init ==
    /\ cline = NewSession
    /\ lock = "free"
    /\ pc = [p \in Procs |-> "idle"]
    /\ loc = [p \in Procs |-> NoLoc]
    /\ agent = [p \in Callers |-> NoAgent]
    /\ terminal_input_queue = <<>>
    /\ lastOp = Op("init", "none", <<>>, "", <<>>, None)
    /\ parsedIds = {}
    /\ resumeArgs = {}
    /\ waiters = <<>>
    /\ tracked_files = {}
    /\ disk = {}
    /\ new_files = <<>>

\* ------------------------------------------------------ Telegram handlers
\* handle_message up to the call of send_to_cline.  The files are tracked
\* at line 737, then send_chat_action is awaited at line 740, outside any
\* try: when it raises (typing is FALSE) the handler ends there, nothing is
\* sent to Cline and nothing is replied.
HandleMessage(user, msg, typing) ==
    /\ pc["tg"] = "idle"
    /\ IF ~is_authorized(user)
       THEN /\ lastOp' = Op("message", "tg", <<>>, "unauthorized", <<>>, None)
            /\ UNCHANGED <<pc, loc, tracked_files>>
       ELSE /\ tracked_files' = track_current_files(cline.working_dir, disk)
            /\ IF typing
               THEN /\ pc' = [pc EXCEPT !["tg"] = "wait"]
                    /\ loc' = [loc EXCEPT
                                  !["tg"] = [NoLoc EXCEPT !.message = msg]]
                    /\ lastOp' = Op("message", "tg", <<>>, "typing", <<>>,
                                    None)
               ELSE /\ lastOp' = Op("message", "tg", <<>>, "raised", <<>>,
                                    None)
                    /\ UNCHANGED <<pc, loc>>
    /\ UNCHANGED <<cline, lock, agent, terminal_input_queue, parsedIds,
                   resumeArgs, waiters, disk, new_files>>

Command(name, user, arg, r) ==
    /\ pc["tg"] = "idle"
    /\ cline' = r.state
    /\ lastOp' = Op(name, "tg", IF name = "cd" THEN arg ELSE <<>>, r.ret, r.out,
                  cline.task_id)
    /\ resumeArgs' = IF name = "resume" /\ arg # <<>> /\ is_authorized(user)
                     THEN resumeArgs \cup {arg} ELSE resumeArgs
    /\ UNCHANGED <<lock, pc, loc, agent, terminal_input_queue, parsedIds,
                   waiters, tracked_files, disk, new_files>>

ResetCommand(user) == Command("reset", user, <<>>, reset_command(cline, user))

KillCommand(user) == Command("kill", user, <<>>, kill_command(cline, user))

CdCommand(user, args) == Command("cd", user, args, cd_command(cline, user, args))

ModelCommand(user, args) ==
    Command("model", user, args, model_command(cline, user, args))

ResumeCommand(user, args) ==
    Command("resume", user, IF args = <<>> THEN <<>> ELSE args[1],
            resume_command(cline, user, args))

\* The methods of the session that no handler calls, called on the session
\* object, and the end of the process they start.
StartInteractive(ok) ==
    /\ cline' = start_interactive(cline, ok).state
    /\ lastOp' = Op("start_interactive", "api", <<>>,
                    start_interactive(cline, ok).ret, <<>>, cline.task_id)
    /\ UNCHANGED <<lock, pc, loc, agent, terminal_input_queue, parsedIds,
                   resumeArgs, waiters, tracked_files, disk, new_files>>

\* stop() of a session that has no process, or whose process has exited
\* and left nothing to wait for (terminate() raises at line 130, kill() at
\* line 134): the handle is cleared in the step of the call.
Stop ==
    /\ pc["api"] = "idle"
    /\ cline.process # "running"
    /\ cline' = stop(cline)
    /\ lastOp' = Op("stop", "api", <<>>, "None", <<>>, cline.task_id)
    /\ UNCHANGED <<lock, pc, loc, agent, terminal_input_queue, parsedIds,
                   resumeArgs, waiters, tracked_files, disk, new_files>>

\* Lines 128-131: stop() of a process that runs, or that has exited with
\* output still unread in its pipe, sends terminate() and waits for the
\* process, up to 5 s; the session is as it was, handle included, with the
\* task id it had at the call kept for the record of the handler.
StopTerminate ==
    /\ pc["api"] = "idle"
    /\ cline.process # "None"
    /\ pc' = [pc EXCEPT !["api"] = "stopping"]
    /\ loc' = [loc EXCEPT !["api"].was = cline.task_id]
    /\ UNCHANGED <<cline, lock, agent, terminal_input_queue, lastOp,
                   parsedIds, resumeArgs, waiters, tracked_files, disk,
                   new_files>>

\* Lines 131-138: the wait ends, with the process or after the 5 s and
\* kill(), and the handle the session holds by then is cleared.
StopReturns ==
    /\ pc["api"] = "stopping"
    /\ cline' = stop(cline)
    /\ lastOp' = Op("stop", "api", <<>>, "None", <<>>, loc["api"].was)
    /\ pc' = [pc EXCEPT !["api"] = "idle"]
    /\ loc' = [loc EXCEPT !["api"] = NoLoc]
    /\ UNCHANGED <<lock, agent, terminal_input_queue, parsedIds,
                   resumeArgs, waiters, tracked_files, disk, new_files>>

ProcessExits ==
    /\ cline.process = "running"
    /\ cline' = [cline EXCEPT !.process = "exited"]
    /\ UNCHANGED <<lock, pc, loc, agent, terminal_input_queue, lastOp,
                   parsedIds, resumeArgs, waiters, tracked_files, disk,
                   new_files>>

\* ------------------------------------------------------------ the terminal
\* The lines that are typed: the commands in lower and in upper case, with
\* a space and with a tab before the rest, and the commands that show the
\* state.
ResetLines == {<<"/reset">>, <<"/RESET">>}
ResumeLines ==
    {<<c, sp, id>> : c \in {"/resume", "/Resume"}, sp \in {" ", "\t"},
                     id \in ResumeIds}
ModelLines ==
    {<<c, sp, m>> : c \in {"/model", "/Model"}, sp \in {" ", "\t"},
                    m \in Models}
ShowLines ==
    {<<c>> : c \in {"/status", "/info", "/tasks", "/model", "/files",
                     "/help", "/start"}}

\* terminal_input_thread with a line that starts with "/".
TerminalCommand(words) ==
    LET r == handle_terminal_command(cline, words) IN
    /\ cline' = r.state
    /\ lastOp' = Op(lower(words[1]), "terminal", <<>>, r.ret, r.out,
                    cline.task_id)
    /\ resumeArgs' = IF r.ret = "task_set"
                     THEN resumeArgs \cup {term_arg(words)}
                     ELSE resumeArgs
    /\ UNCHANGED <<lock, pc, loc, agent, terminal_input_queue, parsedIds,
                   waiters, tracked_files, disk, new_files>>

\* terminal_input_thread with any other line: queued for Cline.
TerminalInput(msg) ==
    /\ Len(terminal_input_queue) < MaxQueue
    /\ terminal_input_queue' = Append(terminal_input_queue, msg)
    /\ UNCHANGED <<cline, lock, pc, loc, agent, lastOp, parsedIds, resumeArgs,
                   waiters, tracked_files, disk, new_files>>

\* process_terminal_input takes a queued message (line 927), prints it
\* (line 928), tracks the files (line 931) and calls send_to_cline (line
\* 934).  When the print raises (printed is FALSE) the handler of line 946
\* logs the error: the message is gone from the queue, nothing was tracked
\* and nothing is sent to Cline.
ProcessTerminalInput(printed) ==
    /\ pc["term"] = "idle"
    /\ terminal_input_queue # <<>>
    /\ terminal_input_queue' = Tail(terminal_input_queue)
    /\ IF printed
       THEN /\ tracked_files' = track_current_files(cline.working_dir, disk)
            /\ pc' = [pc EXCEPT !["term"] = "wait"]
            /\ loc' = [loc EXCEPT !["term"] =
                          [NoLoc EXCEPT
                              !.message = Head(terminal_input_queue)]]
       ELSE UNCHANGED <<tracked_files, pc, loc>>
    /\ UNCHANGED <<cline, lock, agent, lastOp, parsedIds, resumeArgs, waiters,
                   disk, new_files>>

\* ------------------------------------------------- send_to_cline, steps
\* Line 224 and lines 226-269: the lock is taken when it is free and the
\* command line is built from the session as it is at that moment.
\* A lock that never makes its caller wait.
LockNeverWaits == TRUE

LockFree == lock = "free"

\* A lock that lets a newcomer pass the callers queued for it.
fast_path_barging == LockFree

\* asyncio.Lock.acquire returns at once when the lock is unlocked and no
\* caller is queued for it.
fast_path == LockFree /\ waiters = <<>>

\* The lock is taken at once, or on being woken as the first of the queue,
\* and the command is built; args is what is kept of the argument list.
Take(p, args) ==
    /\ pc[p] = "wait"
    /\ \/ p \notin Range(waiters) /\ fast_path
       \/ waiters # <<>> /\ Head(waiters) = p /\ LockFree
    /\ lock' = p
    /\ waiters' = SelectSeq(waiters, LAMBDA q : q # p)
    /\ loc' = [loc EXCEPT
                  ![p].cmd = build_cmd(cline, loc[p].message),
                  ![p].argv = args,
                  ![p].files_before =
                      Range(scan_files(cline.working_dir, disk))]
    /\ pc' = [pc EXCEPT ![p] = "launch"]
    /\ UNCHANGED <<cline, agent, terminal_input_queue, lastOp, parsedIds,
                   resumeArgs, tracked_files, disk, new_files>>

\* The invocation begins, in a working directory without context files;
\* the argument list is not kept.
Acquire(p) == Take(p, <<>>)

\* The invocation begins, with and without context files, and its argument
\* list is kept.
Begin(p, context_preamble) ==
    Take(p, cmd_list(cline, loc[p].message, context_preamble))

\* asyncio.Lock.acquire otherwise: the caller joins the queue and sleeps.
Enqueue(p) ==
    /\ pc[p] = "wait"
    /\ p \notin Range(waiters)
    /\ ~fast_path
    /\ waiters' = Append(waiters, p)
    /\ UNCHANGED <<cline, lock, pc, loc, agent, terminal_input_queue, lastOp,
                   parsedIds, resumeArgs, tracked_files, disk, new_files>>

\* A lock that a failed invocation keeps.
release_on_success(l, p, ret) == IF l = p /\ ret = "completed" THEN "free" ELSE l

\* Line 224: leaving the async with block releases the lock, on every path.
release(l, p, ret) == IF l = p THEN "free" ELSE l

\* What the caller does with the returned triple, in the same step as the
\* return: nothing is awaited between the release of the lock and it.
\* handle_message stores the task id and calls get_new_files (lines
\* 746-750).  process_terminal_input prints the response (lines 937-941)
\* and then calls get_new_files (line 944): when one of the prints raises
\* (printed is FALSE) the handler of line 946 logs the error and
\* get_new_files is not called, the snapshot is left as it was.
Return(p, ret, task_id, text, printed) ==
    /\ printed \/ p = "term"
    /\ lock' = release(lock, p, ret)
    /\ cline' = after_submit(p, cline, task_id)
    /\ IF printed
       THEN LET found == get_new_files(tracked_files, cline.working_dir,
                                       disk) IN
            /\ tracked_files' = found.tracked_files
            /\ new_files' = found.ret
       ELSE UNCHANGED <<tracked_files, new_files>>
    /\ lastOp' = [Op("submit", p, <<>>, ret, task_id, cline.task_id)
                     EXCEPT !.text = text, !.raw = loc[p].output,
                            !.stream = stream_end(loc[p], ret),
                            !.scan = printed]
    /\ pc' = [pc EXCEPT ![p] = "idle"]
    /\ loc' = [loc EXCEPT ![p] = NoLoc]
    /\ agent' = [agent EXCEPT ![p] = NoAgent]
    /\ UNCHANGED <<terminal_input_queue, parsedIds, resumeArgs, waiters, disk>>

\* Lines 271-282 for a Telegram message: send_message returns and the
\* progress message exists, before the subprocess is started.
CreateStream(p) ==
    /\ pc[p] = "launch"
    /\ p = "tg"
    /\ ~loc[p].stream_msg_id
    /\ loc' = [loc EXCEPT ![p].stream_msg_id = TRUE]
    /\ UNCHANGED <<cline, lock, pc, agent, terminal_input_queue, lastOp,
                   parsedIds, resumeArgs, waiters, tracked_files, disk,
                   new_files>>

\* Lines 285-297: the subprocess starts, with the progress message when one
\* was created, without when none was (the terminal gives no context, for a
\* Telegram message send_message has raised).
Launch(p) ==
    /\ pc[p] = "launch"
    /\ agent' = [agent EXCEPT ![p] = [NoAgent EXCEPT !.st = "running"]]
    /\ pc' = [pc EXCEPT ![p] = "read"]
    /\ UNCHANGED <<cline, lock, loc, terminal_input_queue, lastOp, parsedIds,
                   resumeArgs, waiters, tracked_files, disk, new_files>>

\* Time passes while the loop waits for data or for Telegram.
Tick(p) ==
    /\ pc[p] \in {"read", "edit"}
    /\ loc[p].now < StartTime + MaxTicks
    /\ loc' = [loc EXCEPT ![p].now = @ + 1]
    /\ UNCHANGED <<cline, lock, pc, agent, terminal_input_queue, lastOp,
                   parsedIds, resumeArgs, waiters, tracked_files, disk,
                   new_files>>

\* Lines 383-387: create_subprocess_exec raises.
LaunchFails(p, ret, printed) ==
    /\ pc[p] = "launch"
    /\ \E e \in ErrorMessages :
          Return(p, ret, None,
                 IF ret = "not_found" THEN NOT_FOUND_TEXT ELSE error_text(e),
                 printed)

\* The agent process, as the environment drives it.
AgentWrite(p, tok) ==
    /\ agent[p].st = "running"
    /\ agent[p].written < MaxOut
    /\ agent' = [agent EXCEPT ![p].pipe = Append(@, tok),
                              ![p].written = @ + 1]
    /\ UNCHANGED <<cline, lock, pc, loc, terminal_input_queue, lastOp,
                   parsedIds, resumeArgs, waiters, tracked_files, disk,
                   new_files>>

AgentExit(p, code) ==
    /\ agent[p].st = "running"
    /\ agent' = [agent EXCEPT ![p].st = "exited", ![p].returncode = code]
    /\ UNCHANGED <<cline, lock, pc, loc, terminal_input_queue, lastOp,
                   parsedIds, resumeArgs, waiters, tracked_files, disk,
                   new_files>>

\* Lines 285-290 with an agent that has n units to write to its stderr,
\* which is a pipe (line 288) that nothing reads before line 366.
LaunchAgent(p, n) ==
    /\ pc[p] = "launch"
    /\ agent' = [agent EXCEPT ![p] = [NoAgent EXCEPT !.st = "running",
                                                     !.err_todo = n]]
    /\ pc' = [pc EXCEPT ![p] = "read"]
    /\ UNCHANGED <<cline, lock, loc, terminal_input_queue, lastOp, parsedIds,
                   resumeArgs, waiters, tracked_files, disk, new_files>>

\* A write to stderr goes through while the pipe has room, and blocks the
\* agent when it has none.
Blocked(a) == a.st = "running" /\ a.err_todo > 0 /\ a.err >= ErrCapacity

\* Line 366: process.stderr.read() takes what the pipe holds, as soon as
\* the loop has ended and from then on to the end of the stream.
stderr_read(a) == [a EXCEPT !.err = 0]

\* The agent of a caller whose loop has ended is read from and never
\* blocked; what it writes is taken at once.
AgentWriteErr(p) ==
    /\ agent[p].st = "running"
    /\ agent[p].err_todo > 0
    /\ pc[p] = "drain" \/ ~Blocked(agent[p])
    /\ agent' = [agent EXCEPT
                    ![p] = IF pc[p] = "drain"
                           THEN stderr_read([@ EXCEPT !.err_todo = @ - 1])
                           ELSE [@ EXCEPT !.err = @ + 1,
                                          !.err_todo = @ - 1]]
    /\ UNCHANGED <<cline, lock, pc, loc, terminal_input_queue, lastOp,
                   parsedIds, resumeArgs, waiters, tracked_files, disk,
                   new_files>>

\* The agent exits when it has written what it had to write.
AgentDone(p) ==
    /\ agent[p].err_todo = 0
    /\ AgentExit(p, 0)

\* Lines 302-337 and 352-353: a chunk arrives.  The stream holds whatever
\* part of the written data the loop has received so far, so the chunk is
\* a non-empty prefix of the unread data, at most READ_SIZE long.  When an
\* edit of the progress message is due the loop calls edit_message_text
\* and waits for it; when none is, it goes on to line 352 and ends when the
\* exit status is known.
ReadChunk(p, k) ==
    /\ pc[p] = "read"
    /\ k \in 1..Len(agent[p].pipe)
    /\ k <= READ_SIZE
    /\ LET output == loc[p].output \o SubSeq(agent[p].pipe, 1, k)
           l == [loc[p] EXCEPT !.output = output,
                               !.task_id = extract_task_id(@, output)]
       IN  /\ loc' = [loc EXCEPT ![p] = IF edit_due(l) THEN edit_called(l)
                                        ELSE l]
           /\ parsedIds' = parsedIds \cup MarkerIds(output)
           /\ pc' = [pc EXCEPT ![p] =
                        IF edit_due(l) THEN "edit"
                        ELSE IF agent[p].returncode # NoCode THEN "drain"
                        ELSE "read"]
    /\ agent' = [agent EXCEPT
                    ![p] = LET a == [@ EXCEPT !.pipe = SubSeq(@, k + 1, Len(@))]
                           IN  IF pc'[p] = "drain" THEN stderr_read(a) ELSE a]
    /\ UNCHANGED <<cline, lock, terminal_input_queue, lastOp, resumeArgs,
                   waiters, tracked_files, disk, new_files>>

\* Lines 339-353: edit_message_text returns or raises, and the loop ends
\* when the exit status is known by then.
EditReturns(p, ok) ==
    /\ pc[p] = "edit"
    /\ loc' = [loc EXCEPT ![p] = edit_returned(@, ok)]
    /\ pc' = [pc EXCEPT ![p] =
                 IF agent[p].returncode # NoCode THEN "drain" ELSE "read"]
    /\ agent' = [agent EXCEPT
                    ![p] = IF pc'[p] = "drain" THEN stderr_read(@) ELSE @]
    /\ UNCHANGED <<cline, lock, terminal_input_queue, lastOp,
                   parsedIds, resumeArgs, waiters, tracked_files, disk,
                   new_files>>

\* Lines 307 and 352: an empty read at end of file, the process has exited.
ReadEof(p) ==
    /\ pc[p] = "read"
    /\ agent[p].pipe = <<>>
    /\ agent[p].st = "exited"
    /\ pc' = [pc EXCEPT ![p] = "drain"]
    /\ agent' = [agent EXCEPT ![p] = stderr_read(@)]
    /\ UNCHANGED <<cline, lock, loc, terminal_input_queue, lastOp,
                   parsedIds, resumeArgs, waiters, tracked_files, disk,
                   new_files>>

\* Lines 355-359: no data for 0.5 s and the process still runs: the loop
\* goes on, whatever time has passed.
ReadTimeout(p) ==
    /\ pc[p] = "read"
    /\ agent[p].pipe = <<>>
    /\ agent[p].st = "running"
    /\ loc[p].waited < MaxWait
    /\ loc' = [loc EXCEPT ![p].waited = @ + 1, ![p].now = @ + 1]
    /\ UNCHANGED <<cline, lock, pc, agent, terminal_input_queue, lastOp,
                   parsedIds, resumeArgs, waiters, tracked_files, disk,
                   new_files>>

\* Lines 361-363: an exception ends the loop.  The read raises (k is 0),
\* or a chunk of k characters has arrived and was added to the output at
\* line 310, and a print of lines 317-321, which a chunk with something to
\* show reaches, raises before the task id is looked for at line 324.
ReadError(p, k) ==
    /\ pc[p] = "read"
    /\ k \in 0..Len(agent[p].pipe)
    /\ k <= READ_SIZE
    /\ LET chunk == SubSeq(agent[p].pipe, 1, k) IN
        /\ k > 0 => strip(chunk) # <<>> /\ clean_output(chunk) # <<>>
        /\ loc' = [loc EXCEPT ![p].read_error = TRUE,
                              ![p].output = @ \o chunk]
    /\ agent' = [agent EXCEPT
                    ![p] = stderr_read([@ EXCEPT
                                           !.pipe = SubSeq(@, k + 1, Len(@))])]
    /\ pc' = [pc EXCEPT ![p] = "drain"]
    /\ UNCHANGED <<cline, lock, terminal_input_queue, lastOp, parsedIds,
                   resumeArgs, waiters, tracked_files, disk, new_files>>

\* Lines 365-381: stderr has been read to its end, which comes when the
\* process has exited, and the triple is returned.
Finish(p, printed) ==
    /\ pc[p] = "drain"
    /\ agent[p].st = "exited"
    /\ Return(p, "completed", loc[p].task_id, result_text(loc[p], agent[p]),
              printed)

\* Line 366 raises: the read of stderr is outside the try of the loop, so
\* the exception reaches lines 385-387, which return the error text and
\* None for the task id.  The output read so far is dropped and the
\* progress message is not deleted.
StderrRaises(p, printed) ==
    /\ pc[p] = "drain"
    /\ \E e \in ErrorMessages :
          Return(p, "error", None, error_text(e), printed)

\* The working directory, as the agent and everyone else change it.
CreateFile(f) ==
    /\ f \notin disk
    /\ disk' = disk \cup {f}
    /\ UNCHANGED <<cline, lock, pc, loc, agent, terminal_input_queue, lastOp,
                   parsedIds, resumeArgs, waiters, tracked_files, new_files>>

DeleteFile(f) ==
    /\ f \in disk
    /\ disk' = disk \ {f}
    /\ UNCHANGED <<cline, lock, pc, loc, agent, terminal_input_queue, lastOp,
                   parsedIds, resumeArgs, waiters, tracked_files, new_files>>

\* ---------------------------------------------------------- specifications
\* The inputs of the Telegram commands.
ModelArgs == {<<>>} \cup {<<m>> : m \in Models}
ResumeArgs == {<<>>} \cup {<<i>> : i \in ResumeIds}
ModelArgsLong == ModelArgs \cup {<<"opus", "x">>}

\* An agent that reports its task and nothing else.
Script(i) == IF i = 1 THEN Marker ELSE "7"

\* The steps of an invocation that runs without failure.
PlainRun ==
    \/ \E p \in Callers : Acquire(p)
    \/ \E p \in Callers : Enqueue(p)
    \/ \E p \in Callers : Launch(p)
    \/ \E p \in Callers : AgentExit(p, 0)
    \/ \E p \in Callers, k \in 1..MaxOut : ReadChunk(p, k)
    \/ \E p \in Callers : ReadEof(p)
    \/ \E p \in Callers : Finish(p, TRUE)

Entry ==
    \/ \E u \in Users, m \in Messages : HandleMessage(u, m, TRUE)
    \/ \E m \in Messages : TerminalInput(m)
    \/ ProcessTerminalInput(TRUE)

\* A message whose typing indicator cannot be sent, and a terminal message
\* that cannot be printed.
EntryRaises ==
    \/ \E u \in Users, m \in Messages : HandleMessage(u, m, FALSE)
    \/ ProcessTerminalInput(FALSE)

\* The session under the commands that reset it, move it and set its model,
\* with agents that follow the script.
NextSession ==
    \/ Entry
    \/ \E u \in Users : ResetCommand(u)
    \/ \E u \in Users : KillCommand(u)
    \/ \E u \in Users, a \in CdArgs : CdCommand(u, a)
    \/ \E u \in Users, a \in ModelArgs : ModelCommand(u, a)
    \/ \E w \in ResetLines \cup {l \in ModelLines : l[2] = " "} :
          TerminalCommand(w)
    \/ \E p \in Callers : AgentWrite(p, Script(agent[p].written + 1))
    \/ PlainRun

SpecSession == Init /\ [][NextSession]_vars

\* The task id, from the agent's output and from /resume, to the session.
NextTask ==
    \/ Entry
    \/ EntryRaises
    \/ \E u \in Users : ResetCommand(u)
    \/ \E u \in Users, a \in ResumeArgs : ResumeCommand(u, a)
    \/ \E w \in ResetLines \cup ResumeLines : TerminalCommand(w)
    \/ \E p \in Callers, t \in Tokens : AgentWrite(p, t)
    \/ PlainRun

SpecTask == Init /\ [][NextTask]_vars

\* One invocation in all its outcomes, for two callers, with agents that
\* follow the script.
NextInvoke ==
    \/ Entry
    \/ EntryRaises
    \/ \E p \in Callers, r \in {"not_found", "error"} : LaunchFails(p, r, TRUE)
    \/ \E p \in Callers : AgentWrite(p, Script(agent[p].written + 1))
    \/ \E p \in Callers : AgentExit(p, 1)
    \/ \E p \in Callers : ReadTimeout(p)
    \/ \E p \in Callers, k \in 0..MaxOut : ReadError(p, k)
    \/ \E p \in Callers : StderrRaises(p, TRUE)
    \/ PlainRun

SpecInvoke == Init /\ [][NextInvoke]_vars

\* The file tracker around the invocations of both callers, in a working
\* directory whose files come and go.
NextFiles ==
    \/ Entry
    \/ EntryRaises
    \/ \E f \in Files : CreateFile(f)
    \/ \E f \in Files : DeleteFile(f)
    \/ \E p \in Callers : Acquire(p)
    \/ \E p \in Callers : Enqueue(p)
    \/ \E p \in Callers : Launch(p)
    \/ \E p \in Callers : AgentExit(p, 0)
    \/ \E p \in Callers : ReadEof(p)
    \/ \E p \in Callers : Finish(p, TRUE)

SpecFiles == Init /\ [][NextFiles]_vars

\* The working directory as /cd leaves it: the directory and its parent as
\* abspath writes them, and the parent as it was typed.
ScanDirs == {<<"/", "w">>, <<"/">>, <<"/", "w", "..">>}

\* get_new_files on every snapshot, directory and set of files: a caller is
\* about to return from send_to_cline, its agent has exited, and the
\* snapshot is the scan someone took before of some set of files.  The
\* directory can have changed since that scan when the caller is the
\* terminal; a Telegram message took its own scan on the way in, and no
\* /cd is handled before its handler ends.
InitScan ==
    /\ \E wd \in ScanDirs : cline = [NewSession EXCEPT !.working_dir = wd]
    /\ \E q \in Callers :
          /\ lock = q
          /\ pc = [p \in Procs |-> IF p = q THEN "drain" ELSE "idle"]
          /\ loc = [p \in Procs |->
                       IF p = q
                       THEN [NoLoc EXCEPT
                                !.message = "hello",
                                !.cmd = build_cmd(cline, "hello")]
                       ELSE NoLoc]
          /\ agent = [p \in Callers |->
                         IF p = q
                         THEN [NoAgent EXCEPT !.st = "exited",
                                              !.returncode = 0]
                         ELSE NoAgent]
          /\ \E wd0 \in ScanDirs, d0 \in SUBSET Files :
                /\ q = "tg" => wd0 = cline.working_dir
                /\ tracked_files = track_current_files(wd0, d0)
    /\ terminal_input_queue = <<>>
    /\ lastOp = Op("init", "none", <<>>, "", <<>>, None)
    /\ parsedIds = {}
    /\ resumeArgs = {}
    /\ waiters = <<>>
    /\ disk \in SUBSET Files
    /\ new_files = <<>>

NextScan ==
    \/ \E p \in Callers, printed \in BOOLEAN : Finish(p, printed)
    \/ \E p \in Callers, printed \in BOOLEAN : StderrRaises(p, printed)

SpecScan == InitScan /\ [][NextScan]_vars

\* One invocation for a Telegram message with its progress message, in all
\* its outcomes, with time passing.
NextStream ==
    \/ \E u \in Users, m \in Messages, typing \in BOOLEAN :
          HandleMessage(u, m, typing)
    \/ \E p \in Callers : Acquire(p)
    \/ \E p \in Callers : CreateStream(p)
    \/ \E p \in Callers : Launch(p)
    \/ \E p \in Callers, r \in {"not_found", "error"} : LaunchFails(p, r, TRUE)
    \/ \E p \in Callers, t \in Tokens : AgentWrite(p, t)
    \/ \E p \in Callers, c \in {0, 1} : AgentExit(p, c)
    \/ \E p \in Callers, k \in 1..MaxOut : ReadChunk(p, k)
    \/ \E p \in Callers : Tick(p)
    \/ \E p \in Callers : ReadTimeout(p)
    \/ \E p \in Callers, k \in 0..MaxOut : ReadError(p, k)
    \/ \E p \in Callers, ok \in BOOLEAN : EditReturns(p, ok)
    \/ \E p \in Callers : ReadEof(p)
    \/ \E p \in Callers : StderrRaises(p, TRUE)
    \/ \E p \in Callers : Finish(p, TRUE)

SpecStream == Init /\ [][NextStream]_vars

\* The command line of the invocations of a session that gets and loses
\* its task id, in working directories with and without context files.
NextCommand ==
    \/ Entry
    \/ EntryRaises
    \/ \E u \in Users : ResetCommand(u)
    \/ \E u \in Users, a \in ResumeArgs : ResumeCommand(u, a)
    \/ \E u \in Users, a \in ModelArgsLong : ModelCommand(u, a)
    \/ \E p \in Callers, c \in Preambles : Begin(p, c)
    \/ \E p \in Callers : Enqueue(p)
    \/ \E p \in Callers : Launch(p)
    \/ \E p \in Callers : AgentWrite(p, Script(agent[p].written + 1))
    \/ \E p \in Callers : AgentExit(p, 0)
    \/ \E p \in Callers, k \in 1..MaxOut : ReadChunk(p, k)
    \/ \E p \in Callers : ReadEof(p)
    \/ \E p \in Callers : Finish(p, TRUE)

SpecCommand == Init /\ [][NextCommand]_vars

\* The invocations with agents that write to their stderr and nothing to
\* their stdout, under the scheduling of the event loop: a coroutine that
\* can go on does go on, and an agent that is not blocked writes what it has
\* to write and exits.
NextLive ==
    \/ Entry
    \/ \E p \in Callers : Acquire(p)
    \/ \E p \in Callers : Enqueue(p)
    \/ \E p \in Callers, n \in 0..MaxErr : LaunchAgent(p, n)
    \/ \E p \in Callers : AgentWriteErr(p)
    \/ \E p \in Callers : AgentDone(p)
    \/ \E p \in Callers : ReadTimeout(p)
    \/ \E p \in Callers : ReadError(p, 0)
    \/ \E p \in Callers : ReadEof(p)
    \/ \E p \in Callers : Finish(p, TRUE)

FairLive ==
    \A p \in Callers :
       /\ WF_vars(ReadTimeout(p))
       /\ WF_vars(ReadEof(p))
       /\ WF_vars(Finish(p, TRUE))
       /\ WF_vars(AgentWriteErr(p))
       /\ WF_vars(AgentDone(p))

SpecLive == Init /\ [][NextLive]_vars /\ FairLive

\* The session object with a process of its own, under the resets of both
\* callers, /cd and the invocations of a Telegram user.
NextProcess ==
    \/ \E ok \in BOOLEAN : StartInteractive(ok)
    \/ Stop
    \/ StopTerminate
    \/ StopReturns
    \/ ProcessExits
    \/ \E u \in Users, m \in Messages, typing \in BOOLEAN :
          HandleMessage(u, m, typing)
    \/ \E u \in Users : ResetCommand(u)
    \/ \E u \in Users : KillCommand(u)
    \/ \E u \in Users, a \in CdArgs : CdCommand(u, a)
    \/ \E w \in ResetLines \cup ShowLines : TerminalCommand(w)
    \/ \E p \in Callers : Acquire(p)
    \/ \E p \in Callers : Launch(p)
    \/ \E p \in Callers : AgentWrite(p, Script(agent[p].written + 1))
    \/ \E p \in Callers : AgentExit(p, 0)
    \/ \E p \in Callers, k \in 1..MaxOut : ReadChunk(p, k)
    \/ \E p \in Callers : ReadEof(p)
    \/ \E p \in Callers : Finish(p, TRUE)

SpecProcess == Init /\ [][NextProcess]_vars

\* The progress message of the invocations, from its creation to the
\* return, with launches that fail before and after it was created.
NextProgress ==
    \/ Entry
    \/ EntryRaises
    \/ \E p \in Callers : Acquire(p)
    \/ \E p \in Callers : Enqueue(p)
    \/ \E p \in Callers : CreateStream(p)
    \/ \E p \in Callers : Launch(p)
    \/ \E p \in Callers, r \in {"not_found", "error"} : LaunchFails(p, r, TRUE)
    \/ \E p \in Callers : AgentWrite(p, Script(agent[p].written + 1))
    \/ \E p \in Callers, c \in {0, 1} : AgentExit(p, c)
    \/ \E p \in Callers, k \in 1..MaxOut : ReadChunk(p, k)
    \/ \E p \in Callers, k \in 0..MaxOut : ReadError(p, k)
    \/ \E p \in Callers, ok \in BOOLEAN : EditReturns(p, ok)
    \/ \E p \in Callers : ReadEof(p)
    \/ \E p \in Callers : StderrRaises(p, TRUE)
    \/ \E p \in Callers : Finish(p, TRUE)

SpecProgress == Init /\ [][NextProgress]_vars

\* clean_output on every raw text of up to MaxRaw characters: the agent of a
\* Telegram message has written the text and exited, the loop has read it.
RawChars == {ESC, "[", "7", "m", "M", " ", "\n", "BOX"}
ShortTexts == UNION {[1..n -> RawChars] : n \in 0..MaxRaw}

\* The longer texts, up to two characters over the limit of line 183.
LongChars == {"m", " ", "\n"}
LongTexts ==
    UNION {[1..n -> LongChars] : n \in (MaxRaw + 1)..(MaxText + 2)}
RawTexts == ShortTexts \cup LongTexts

InitClean ==
    /\ cline = NewSession
    /\ lock = "tg"
    /\ pc = [p \in Procs |-> IF p = "tg" THEN "drain" ELSE "idle"]
    /\ \E x \in RawTexts :
          loc = [p \in Procs |->
                    IF p = "tg"
                    THEN [NoLoc EXCEPT !.message = "hello",
                                       !.cmd = build_cmd(NewSession, "hello"),
                                       !.output = x]
                    ELSE NoLoc]
    /\ agent = [p \in Callers |->
                    IF p = "tg"
                    THEN [NoAgent EXCEPT !.st = "exited", !.returncode = 0]
                    ELSE NoAgent]
    /\ terminal_input_queue = <<>>
    /\ lastOp = Op("message", "tg", <<>>, "typing", <<>>, None)
    /\ parsedIds = {}
    /\ resumeArgs = {}
    /\ waiters = <<>>
    /\ tracked_files = {}
    /\ disk = {}
    /\ new_files = <<>>

NextClean == \E p \in Callers : Finish(p, TRUE)

SpecClean == InitClean /\ [][NextClean]_vars

\* The capture of the task id from every output of up to MaxCapture
\* characters and from the output "Task started: 42\nDone.", under every
\* split into chunks: the agent has written the output, nothing is read yet.
Example == <<"T", " ", "4", "2", "\n", "Done.">>
CaptureChars == {"T", "4", "2", " "}
CaptureTexts ==
    UNION {[1..n -> CaptureChars] : n \in 0..MaxCapture} \cup {Example}

InitCapture ==
    /\ cline = NewSession
    /\ lock = "tg"
    /\ pc = [p \in Procs |-> IF p = "tg" THEN "read" ELSE "idle"]
    /\ loc = [p \in Procs |->
                  IF p = "tg"
                  THEN [NoLoc EXCEPT !.message = "hello",
                                     !.cmd = build_cmd(NewSession, "hello")]
                  ELSE NoLoc]
    /\ \E x \in CaptureTexts :
          agent = [p \in Callers |->
                      IF p = "tg"
                      THEN [NoAgent EXCEPT !.st = "running", !.pipe = x,
                                           !.written = Len(x)]
                      ELSE NoAgent]
    /\ terminal_input_queue = <<>>
    /\ lastOp = Op("message", "tg", <<>>, "typing", <<>>, None)
    /\ parsedIds = {}
    /\ resumeArgs = {}
    /\ waiters = <<>>
    /\ tracked_files = {}
    /\ disk = {}
    /\ new_files = <<>>

NextCapture ==
    \/ \E p \in Callers, k \in 1..Len(Example) : ReadChunk(p, k)
    \/ \E p \in Callers, k \in 0..Len(Example) : ReadError(p, k)
    \/ \E p \in Callers : AgentExit(p, 0)
    \/ \E p \in Callers : ReadEof(p)
    \/ \E p \in Callers : StderrRaises(p, TRUE)
    \/ \E p \in Callers : Finish(p, TRUE)

SpecCapture == InitCapture /\ [][NextCapture]_vars

\* ------------------------------------------------------------------ claims
\* The callers whose agent subprocess exists.
Launched == {p \in Callers : agent[p].st # "none"}

\* C1: at most one agent subprocess launched by send_to_cline exists at any
\* time, its caller holds the lock, and every other caller has not started
\* its process: a second call starts only after the first has returned.
C1_SingleFlight ==
    /\ Cardinality(Launched) <= 1
    /\ \A p \in Launched :
          /\ lock = p
          /\ \A q \in Callers \ {p} : pc[q] \in {"idle", "wait"}

\* One caller reads its agent's output while the other waits for the lock.
C1_Witness ==
    \E p \in Callers, q \in Callers :
        /\ p # q
        /\ pc[p] = "read" /\ loc[p].output # <<>>
        /\ pc[q] = "wait"

\* C2, as claimed: the session's task_id is None or an id parsed from the
\* marker in the output of an invocation of this session.
C2_OnlyFromMarker == cline.task_id = None \/ cline.task_id \in parsedIds

\* C2, amended: the session's task_id is None, an id parsed from the marker
\* in the output of an invocation, or the id a user gave to /resume.
C2_FromMarkerOrResume ==
    cline.task_id = None \/ cline.task_id \in parsedIds \cup resumeArgs

\* A parsed id replaced the id that /resume had set.
C2_Witness ==
    /\ lastOp.op = "submit" /\ lastOp.out # None
    /\ lastOp.was \in resumeArgs /\ lastOp.was # lastOp.out
    /\ cline.task_id = lastOp.out

\* C3: when a submit has returned a task id, the session's task_id is that
\* id, whichever entry path made the call.
C3_ResultTaskIdStored ==
    (lastOp.op = "submit" /\ lastOp.out # None) => cline.task_id = lastOp.out

\* C4: a submit that completes successfully (normal return, exit status 0,
\* no read error) increments messages_sent by one.
C4_CountsSuccessfulSubmits ==
    [][\A p \in Callers :
          (/\ pc[p] = "drain" /\ pc'[p] = "idle"
           /\ agent[p].returncode = 0 /\ ~loc[p].read_error)
          => cline'.messages_sent = cline.messages_sent + 1]_vars

\* The last handler was a reset that ran ClineSession.restart.
ResetDone ==
    \/ lastOp.op = "reset" /\ lastOp.ret = RESET_TEXT
    \/ lastOp.op = "kill" /\ lastOp.ret = KILL_PREFIX \o RESET_TEXT
    \/ lastOp.op = "/reset" /\ lastOp.ret = "reset"

\* C5: right after reset, task_id is None and the counters are 0, model and
\* working_dir are as before, and a second reset changes nothing and gives
\* the same confirmation string.
C5_Reset ==
    [][ResetDone' =>
          /\ cline'.task_id = None
          /\ cline'.messages_sent = 0 /\ cline'.total_tokens = 0
          /\ cline'.model = cline.model
          /\ cline'.working_dir = cline.working_dir
          /\ restart(cline').state = cline'
          /\ (lastOp'.op = "reset" => restart(cline').ret = lastOp'.ret)
          /\ (lastOp'.op = "kill" =>
                 KILL_PREFIX \o restart(cline').ret = lastOp'.ret)]_vars

\* A reset cleared a task id in a session whose model and directory had
\* been changed.
C5_Witness ==
    /\ ResetDone
    /\ lastOp.was # None
    /\ cline.model # CLINE_MODEL /\ cline.working_dir # CLINE_WORKING_DIR

\* C6: the session's state is written only in a step of the caller that
\* holds the lock.
C6_WritesHoldLock ==
    [][cline' # cline =>
          \E p \in Callers : lock = p /\ pc'[p] # pc[p]]_vars

\* C7, as claimed: the invocation started next after setModel(name) is
\* launched with the model selection name.
C7_NextUsesModel ==
    [][\A p \in Callers :
          (pc[p] = "wait" /\ pc'[p] = "launch" /\ lastOp.ret = "model_set")
          => loc'[p].cmd.model = cline.model]_vars

InFlightPc == {"launch", "read", "edit", "drain"}

\* C7, amended: the arguments of an invocation in flight never change, and
\* an invocation is started with the session's model of that moment when
\* the session has no task id, and with the task id and no model selection
\* when it has one.
C7_Deferred ==
    [][\A p \in Callers :
          /\ (pc[p] \in InFlightPc /\ pc'[p] \in InFlightPc)
                => loc'[p].cmd = loc[p].cmd
          /\ (pc[p] = "wait" /\ pc'[p] = "launch") =>
                IF cline.task_id = None
                THEN /\ loc'[p].cmd.model = cline.model
                     /\ loc'[p].cmd.taskId = None
                ELSE /\ loc'[p].cmd.model = NoModel
                     /\ loc'[p].cmd.taskId = cline.task_id]_vars

\* An invocation launched with a model that had been set is being read
\* while the session's model has been set to another one.
C7_Witness ==
    \E p \in Callers :
        /\ pc[p] = "read"
        /\ loc[p].cmd.model = "opus" /\ cline.model = CLINE_MODEL
        /\ lastOp.ret = "model_set"

\* The path /cd validates: a relative argument is resolved against the
\* working directory.
Resolved(wd, arg) == IF isabs(arg) THEN arg ELSE abspath(join(wd, arg))

\* A handler ran in this step and left its record.
HandlerRan == lastOp' # lastOp

\* C8: /cd with a path that does not resolve to an existing directory gets
\* the error reply and leaves the whole session unchanged.
C8_BadDirectoryRejected ==
    [][(/\ HandlerRan
        /\ lastOp'.op = "cd" /\ lastOp'.ret # "unauthorized"
        /\ lastOp'.arg # <<>>
        /\ ~isdir(Resolved(cline.working_dir, lastOp'.arg)))
       => lastOp'.ret = "not_found" /\ cline' = cline]_vars

\* A relative path was rejected in a session that has a task id, a model
\* and a directory of its own.
C8_Witness ==
    /\ lastOp.op = "cd" /\ lastOp.ret = "not_found" /\ ~isabs(lastOp.arg)
    /\ cline.task_id # None
    /\ cline.model # CLINE_MODEL /\ cline.working_dir # CLINE_WORKING_DIR

\* C9: a successful /cd leaves the session as reset leaves it (task_id
\* None, counters 0, no process, model as before) with working_dir bound to
\* the resolved absolute path.
C9_CdIsResetAndRebind ==
    [][(HandlerRan /\ lastOp'.op = "cd" /\ lastOp'.ret = "changed") =>
          /\ cline' = [restart(cline).state EXCEPT
                          !.working_dir = Resolved(cline.working_dir,
                                                   lastOp'.arg)]
          /\ cline'.task_id = None
          /\ cline'.messages_sent = 0 /\ cline'.total_tokens = 0
          /\ ~is_alive(cline')
          /\ cline'.model = cline.model
          /\ isabs(cline'.working_dir) /\ isdir(cline'.working_dir)]_vars

\* C10: no invocation is still reading its agent's output after more
\* polls have timed out than the configured timeout holds.
C10_StopsAtTimeout ==
    \A p \in Callers : pc[p] = "read" => loc[p].waited <= TimeoutPolls

\* The last handler was a send_to_cline that returned from line 381.
Completed == lastOp.op = "submit" /\ lastOp.ret = "completed"

\* Caller p returns from send_to_cline in this step.
Returns(p) == pc[p] \in InFlightPc /\ pc'[p] = "idle"

\* The invocation of p did not complete successfully: the launch failed,
\* reading raised, or the agent exited with a nonzero status.
Failed(p) ==
    \/ pc[p] = "launch"
    \/ loc[p].read_error
    \/ agent[p].returncode # 0

\* C11: every way send_to_cline ends is a return of a triple whose text is
\* not empty: with the executable missing, with another launch error, after
\* a read error, after a nonzero exit and after failed progress edits.
C11_AlwaysReturnsText ==
    lastOp.op = "submit" =>
        /\ lastOp.ret \in {"completed", "not_found", "error"}
        /\ lastOp.text # <<>>

\* A launch failed with an exception whose message is empty, and the text
\* returned is the prefix alone.
C11_Witness ==
    /\ lastOp.op = "submit" /\ lastOp.ret = "error"
    /\ lastOp.text = <<"Error: ">>

\* C12: a submit that does not complete successfully leaves the session's
\* task_id and model as they were before it.
C12_FailedSubmitKeepsSession ==
    [][\A p \in Callers :
          (Returns(p) /\ Failed(p))
          => /\ cline'.task_id = cline.task_id
             /\ cline'.model = cline.model]_vars

\* C13: the lock is held only by a caller that is inside send_to_cline, so
\* it is free whenever no call is active, whatever way the calls before
\* have ended.
C13_LockReleased ==
    /\ \A p \in Callers : lock = p => pc[p] \in InFlightPc
    /\ (\A p \in Callers : pc[p] \notin InFlightPc) => lock = "free"

\* A caller whose last submit failed holds the lock again and has launched
\* its agent.
C13_Witness ==
    \E p \in Callers :
        /\ lastOp.op = "submit" /\ lastOp.by = p
        /\ lastOp.ret \in {"not_found", "error"}
        /\ lock = p /\ pc[p] = "read"

\* The first marker that is followed by a digit, and the digits after it.
FirstMarker(out) ==
    LET hits == {i \in 1..Len(out) :
                    /\ out[i] = Marker
                    /\ \E j \in (i + 1)..Len(out) :
                          /\ out[j] \in Digits
                          /\ \A m \in (i + 1)..(j - 1) : out[m] \in Whitespace}
    IN  IF hits = {} THEN 0 ELSE CHOOSE i \in hits : \A h \in hits : i <= h

FirstRun(out) ==
    LET i == FirstMarker(out)
        j == CHOOSE d \in (i + 1)..Len(out) :
                /\ out[d] \in Digits
                /\ \A m \in (i + 1)..(d - 1) : out[m] \notin Digits
        k == CHOOSE e \in j..Len(out) :
                /\ \A m \in j..e : out[m] \in Digits
                /\ e = Len(out) \/ out[e + 1] \notin Digits
    IN  SubSeq(out, j, k)

\* C14: within one invocation the task id is captured when the accumulated
\* output first holds a marker with digits, as the digits of the first such
\* marker; once captured it never changes; the id returned is the captured
\* one, and None when the output read holds no marker with digits.  (An
\* output read without an exception that holds such a marker gives an id.)
C14_FirstMarkerOnce ==
    [][\A p \in Callers :
          /\ (pc[p] = "read" /\ pc'[p] \in {"read", "edit", "drain"}) =>
                /\ loc[p].task_id # None => loc'[p].task_id = loc[p].task_id
                /\ (loc[p].task_id = None /\ loc'[p].task_id # None) =>
                      loc'[p].task_id = FirstRun(loc'[p].output)
                /\ FirstMarker(loc'[p].output) = 0 =>
                      loc'[p].task_id = None
                /\ (loc'[p].task_id = None /\ ~loc'[p].read_error) =>
                      FirstMarker(loc'[p].output) = 0
          /\ (pc[p] = "drain" /\ pc'[p] = "idle") =>
                /\ lastOp'.out = loc[p].task_id
                /\ FirstMarker(lastOp'.raw) = 0 => lastOp'.out = None
                /\ (lastOp'.out = None /\ ~loc[p].read_error) =>
                      FirstMarker(lastOp'.raw) = 0]_vars

\* The paths a scan of the working directory finds: those of the files
\* below it that have a tracked extension, written from the working
\* directory as the session holds it.
Scanned ==
    {path_under(cline.working_dir, f) :
        f \in {g \in disk :
                  /\ IsPrefix(abspath(cline.working_dir), g.dir)
                  /\ \E i \in 1..Len(EXTENSIONS) : g.ext = EXTENSIONS[i]}}

\* C17: whenever a caller calls get_new_files on the return of its
\* invocation, the list it gets holds the paths of the current scan that
\* are not in the tracked snapshot, each once, in ascending order of path,
\* and the scan becomes the snapshot.
C17_NewFilesAreTheDifference ==
    [][\A p \in Callers :
          (Returns(p) /\ lastOp'.scan) =>
             /\ Range(new_files') = Scanned \ tracked_files
             /\ \A i \in 1..Len(new_files'), j \in 1..Len(new_files') :
                   i < j => Rank(new_files'[i]) < Rank(new_files'[j])
             /\ tracked_files' = Scanned]_vars

\* With a.txt and b.txt in the snapshot and a.txt, b.txt, c.txt and a file
\* that is not scanned on disk, the list returned is [c.txt].
C17_Witness ==
    /\ lastOp.op = "submit"
    /\ disk = Files
    /\ tracked_files = {PathOrder[1], PathOrder[2], PathOrder[3]}
    /\ new_files = <<PathOrder[3]>>

\* C19: a progress edit is attempted only when the preview differs from
\* the text of the edit attempted before it and at least the interval has
\* passed since that attempt, whether it succeeded or not.
C19_EditsAreSpaced ==
    [][\A p \in Callers :
          (/\ pc[p] = "read" /\ pc'[p] = "edit"
           /\ loc'[p].calls = loc[p].calls + 1
           /\ loc[p].calls > 0)
          => /\ loc'[p].last_call_text # loc[p].last_call_text
             /\ loc'[p].last_call - loc[p].last_call >= edit_interval]_vars

\* C15: clean_output applied to a text clean_output returned gives that
\* text back.
C15_Idempotent ==
    (Completed /\ lastOp.text # COMPLETED_TEXT)
        => clean_output(lastOp.text) = lastOp.text

\* The raw text held an escape sequence inside another, and what is left
\* of it is returned.
C15_Witness ==
    /\ Completed
    /\ lastOp.raw = <<ESC, ESC, "[", "m", "m">>
    /\ lastOp.text = <<"m">>

\* The text before lines 183-184 cut it.
Uncut(raw) == lines_cleaned(controls_removed(escapes_removed(raw)))

\* C16: the text clean_output returns has at most MaxText characters, and
\* when the cleaned text was longer it ends with the marker "...".
C16_Bounded ==
    (Completed /\ lastOp.text # COMPLETED_TEXT) =>
        /\ Len(lastOp.text) <= MaxText
        /\ Len(Uncut(lastOp.raw)) > MaxText =>
              /\ Len(lastOp.text) >= 3
              /\ SubSeq(lastOp.text, Len(lastOp.text) - 2, Len(lastOp.text))
                    = Ellipsis

\* A text longer than the limit came back cut, with the marker.
C16_Witness ==
    /\ Completed
    /\ Len(Uncut(lastOp.raw)) > MaxText
    /\ Len(lastOp.text) = MaxText
    /\ lastOp.text[1] = lastOp.raw[1]

\* C18: the text of a send_to_cline that completed is not empty and not
\* all whitespace, and it is the placeholder when the output is empty or
\* holds nothing but control characters, border characters and line breaks.
C18_NeverBlank ==
    Completed =>
        /\ lastOp.text # <<>>
        /\ \E i \in 1..Len(lastOp.text) : lastOp.text[i] \notin Whitespace
        /\ (\A i \in 1..Len(lastOp.raw) :
                lastOp.raw[i] \in Control \cup Decorative \cup {"\n"})
              => lastOp.text = COMPLETED_TEXT

\* An output of border lines alone gave the placeholder.
C18_Witness ==
    /\ Completed
    /\ lastOp.raw = <<"BOX", "BOX", "\n", "BOX">>
    /\ lastOp.text = COMPLETED_TEXT

\* C20: a caller that finds the lock held, or others queued for it, joins
\* the queue and stays in it until it gets the lock, with no error; and the
\* lock goes to the caller at the head of the queue, to a newcomer only
\* when nobody is queued: callers are served in the order they began to
\* wait.
C20_ServedInOrder ==
    [][/\ \A q \in Callers :
             (lock # q /\ lock' = q) => (waiters = <<>> \/ Head(waiters) = q)
       /\ \A i \in 1..Len(waiters) :
             \/ pc'[waiters[i]] = "wait" /\ waiters[i] \in Range(waiters')
             \/ i = 1 /\ lock' = waiters[i] /\ pc'[waiters[i]] = "launch"
       /\ \A i \in 1..Len(waiters'), j \in 1..Len(waiters') :
             (i < j /\ waiters'[j] \in Range(waiters))
                => waiters'[i] \in Range(waiters)]_vars

\* The terminal's call has returned while the Telegram call was waiting;
\* the Telegram call now holds the lock and the terminal's next call is
\* queued behind it.
C20_Witness ==
    /\ lastOp.op = "submit" /\ lastOp.by = "term"
    /\ lock = "tg" /\ pc["tg"] = "read"
    /\ waiters = <<"term">>

\* C21: the command line of an invocation has --taskId with the session's
\* task id and no --model when the session has a task id as the invocation
\* starts, and --model with the session's model and no --taskId otherwise;
\* in both cases the message, with the context before it if there is one,
\* is the last argument and no other argument holds it.
Has(a, flag) == \E i \in 1..Len(a) : a[i] = flag
Follows(a, flag, value) ==
    \E i \in 1..(Len(a) - 1) : a[i] = flag /\ a[i + 1] = value

C21_CommandLine ==
    [][\A p \in Callers :
          (pc[p] = "wait" /\ pc'[p] = "launch") =>
             LET a == loc'[p].argv
                 m == loc[p].message IN
             /\ IF cline.task_id # None
                THEN /\ Follows(a, <<"--taskId">>, cline.task_id)
                     /\ ~Has(a, <<"--model">>)
                ELSE /\ Follows(a, <<"--model">>, <<cline.model>>)
                     /\ ~Has(a, <<"--taskId">>)
             /\ a # <<>>
             /\ a[Len(a)] \in {<<m>>} \cup
                   {<<"Context:">> \o c \o <<"User message: ", m>> :
                       c \in Preambles \ {NoPreamble}}
             /\ \A i \in 1..(Len(a) - 1) : m \notin Range(a[i])]_vars

\* A resumed invocation in a working directory with a context file is about
\* to be launched.
C21_Witness ==
    \E p \in Callers :
       /\ pc[p] = "launch"
       /\ Has(loc[p].argv, <<"--taskId">>)
       /\ Len(loc[p].argv[Len(loc[p].argv)]) > 1
\* C22: when the agent has exited with status 0 and no read has failed, the
\* text send_to_cline returns is the cleaned form of everything the agent
\* wrote, the part still unread in the pipe when the exit was seen
\* included.
C22_AllOutputDrained ==
    [][\A p \in Callers :
          (Returns(p) /\ pc[p] = "drain" /\ agent[p].returncode = 0
              /\ ~loc[p].read_error) =>
             lastOp'.text =
                text_or_default(clean_output(loc[p].output \o agent[p].pipe))]_vars
\* C23: with an agent that exits once it is not blocked in a write, every
\* invocation that has started its agent returns.
C23_AlwaysReturns ==
    \A p \in Callers : (pc[p] = "read") ~> (pc[p] = "idle")
\* C24: when the agent exits with a nonzero status, or reading raises,
\* after some output was read, send_to_cline returns the cleaned form of
\* that output, not an error text, and the session is idle again: the
\* caller is out of send_to_cline and does not hold the lock.
C24_PartialOutputReturned ==
    [][\A p \in Callers :
          (Returns(p) /\ pc[p] = "drain" /\ loc[p].output # <<>>
              /\ (loc[p].read_error \/ agent[p].returncode \notin {0, NoCode}))
          => LET cleaned == clean_output(loc[p].output) IN
             /\ lastOp'.raw = loc[p].output
             /\ cleaned # <<>> => lastOp'.text = cleaned
             /\ cleaned = <<>> => lastOp'.text = COMPLETED_TEXT
             /\ lastOp'.text \notin
                   {NOT_FOUND_TEXT} \cup {error_text(e) : e \in ErrorMessages}
             /\ pc'[p] = "idle"
             /\ lock' # p]_vars

\* C25: after a reset the session has no live process: the process that
\* start_interactive had started is ended and its handle is cleared.
C25_ResetEndsProcess ==
    [][(HandlerRan /\ ResetDone') =>
          /\ ~is_alive(cline')
          /\ cline'.process = "None"]_vars
\* C26: clean_output keeps the lines that are empty after trimming: a raw
\* text of plain characters and newlines that begins and ends with a plain
\* character, has no run of three newlines and is within the limit comes
\* back as it is, the blank line between two content lines included.
PlainChars == {"m", "M", "7", "["}

C26_BlankLinesKept ==
    (/\ Completed
     /\ lastOp.raw # <<>>
     /\ Len(lastOp.raw) <= MaxText
     /\ \A i \in 1..Len(lastOp.raw) : lastOp.raw[i] \in PlainChars \cup {"\n"}
     /\ lastOp.raw[1] # "\n" /\ lastOp.raw[Len(lastOp.raw)] # "\n"
     /\ \A i \in 1..(Len(lastOp.raw) - 2) :
           ~(lastOp.raw[i] = "\n" /\ lastOp.raw[i + 1] = "\n"
               /\ lastOp.raw[i + 2] = "\n"))
    => lastOp.text = lastOp.raw
\* C27: the task id an invocation returns is the whole digit run of the
\* first marker of the output it has read, however the reads have cut that
\* output into chunks, and None when there is no such marker.
C27_ChunkingIndependent ==
    Completed =>
        lastOp.out = IF FirstMarker(lastOp.raw) = 0 THEN None
                     ELSE FirstRun(lastOp.raw)
\* C28: when a reset was the last handler to run before an invocation
\* returns, and that invocation had been started with the task id the
\* reset cleared, the session's task id is still None after the return.
C28_ResetSurvivesInvocation ==
    [][\A p \in Callers :
          (Returns(p) /\ ResetDone /\ loc[p].cmd.taskId # None
              /\ cline.task_id = None) =>
             cline'.task_id = None]_vars
\* C29: no invocation returns leaving the progress message it created: the
\* message was deleted, or at least the delete was attempted, before the
\* return (no return gives the message id to the caller).
C29_ProgressMessageFinalized ==
    lastOp.op = "submit" => lastOp.stream # "left"
\* C30: with the requests of both callers interleaved, every file that is
\* in the working directory when an invocation returns and was not there
\* when it began is in the list the get_new_files of that request returns.
C30_NewFilesReported ==
    [][\A p \in Callers :
          (Returns(p) /\ pc[p] = "drain") =>
             (Scanned \ loc[p].files_before) \subseteq Range(new_files')]_vars
====
